---- MODULE Spec2Model ----
(***************************************************************************)
(* Model of the cluster orchestration of NedBot/sharder:                   *)
(*   src/src/cluster/ClusterManager.ts  (master-side ClusterManager)       *)
(*   src/src/cluster/Cluster.ts         (worker-side Cluster agent)        *)
(* The ClusterQueue and the strategies are imported by ClusterManager.ts   *)
(* from files that are not part of the sources at hand; they are modelled  *)
(* from their description in spec.md (sections 4.1-4.3).                   *)
(***************************************************************************)
EXTENDS Integers, Sequences, FiniteSets, TLC

\* ------------------------------------------------------------------ bounds
MaxId == 1            \* cluster ids are drawn from 0..MaxId
MaxWorkers == 2       \* cluster.fork() is called at most this many times
MaxSends == 2         \* at most this many IPC messages are sent to workers
MaxGatewayShards == 4 \* shard counts 0..MaxGatewayShards the gateway recommends
MaxGuildsPerShard == 3 \* options.guildsPerShard is drawn from 1..MaxGuildsPerShard
MaxOverride == 3      \* options.shardCountOverride is drawn from 0..MaxOverride

ClusterIds == 0..MaxId
WorkerIds == 1..MaxWorkers

\* JavaScript `undefined` for a number-typed field
Undefined == -1

\* ------------------------------------------------------------------ state
VARIABLES
  privClusters,   \* #clusters: ClusterConfig[]                    (master)
  clusters,       \* public clusters: Map<number, RawCluster>      (master)
  workers,        \* public workers: Map<number, number>           (master)
  nextWorkerId,   \* id the next cluster.fork() hands out (node cluster module)
  liveWorkers,    \* keys of node's cluster.workers: the worker processes alive
  exited,         \* exit code of every worker process that has exited
  pc,             \* position of the master in launch()
  listeners,      \* listeners launch() has registered on the master
  todo,           \* configs the connect strategy still has to start
  awaiting,       \* cluster id whose lease the connect strategy awaits
  queue,          \* ClusterQueue: pending items, head first
  active,         \* ClusterQueue: items holding a lease
  inbox,          \* per live worker: IPC messages sent to it, not yet handled
  agent,          \* per live worker: the fields of its Cluster object
  sends,          \* number of worker.send calls so far
  reconnectCalls, \* number of times the reconnect strategy has been run
  toMaster,       \* IPC messages the workers have sent to the master
  clientOptions,  \* options.clientOptions the manager was constructed with
  logged,         \* errors written through logger.error
  masterExit,     \* exit code of the master process, Undefined while it runs
  ret             \* outcome of the last step when it was a manager call or handler

mgrVars == <<privClusters, clusters, workers, nextWorkerId, liveWorkers>>
procVars == <<inbox, agent, sends>>
launchVars == <<pc, listeners, todo, awaiting, logged, masterExit>>
queueVars == <<queue, active>>
vars == <<privClusters, clusters, workers, nextWorkerId, liveWorkers, exited,
          pc, listeners, todo, awaiting, queue, active, inbox, agent, sends,
          reconnectCalls, toMaster, clientOptions, logged, masterExit, ret>>

\* ClusterConfig as startCluster/addCluster/getCluster use it
ClusterConfig(id, shardCount) ==
  [id |-> id, shardCount |-> shardCount,
   firstShardId |-> 2 * id, lastShardId |-> 2 * id + shardCount - 1,
   workerId |-> Undefined]

ConfigInputs == {ClusterConfig(i, n) : i \in ClusterIds, n \in 1..2}

\* the configs a cluster strategy hands to addCluster
StrategyInputs == {ClusterConfig(i, 1) : i \in ClusterIds}

\* RawCluster, the value type of the public `clusters` map
RawCluster(id, workerID) ==
  [workerID |-> workerID, shardCount |-> 1,
   firstShardID |-> 2 * id, lastShardID |-> 2 * id]

\* An IPC message; a field that is not present holds Absent or Undefined
Absent == ""
IPCMessage(name, eventName, clusterID, firstShardID, lastShardID, shardCount) ==
  [name |-> name, eventName |-> eventName, clusterID |-> clusterID,
   firstShardID |-> firstShardID, lastShardID |-> lastShardID,
   shardCount |-> shardCount]

\* the messages a caller of sendTo passes in
MessageInputs ==
  {IPCMessage("connect", Absent, 0, 0, 1, 2)}
  \cup {IPCMessage("statsUpdate", Absent, Undefined, Undefined, Undefined, Undefined)}

\* a lookup that matches on the worker id only
getClusterIndexByWorker(list, id) ==
  LET hits == {i \in 1..Len(list) : list[i].workerId = id}
  IN IF hits = {} THEN 0 ELSE CHOOSE i \in hits : \A j \in hits : i <= j

\* this.#clusters.find((x) => x.id === id || x.workerId === id): the index of
\* the first match, 0 when find returns undefined
getClusterIndex(list, id) ==
  LET hits == {i \in 1..Len(list) : list[i].id = id \/ list[i].workerId = id}
  IN IF hits = {} THEN 0 ELSE CHOOSE i \in hits : \A j \in hits : i <= j

getCluster(id) == getClusterIndex(privClusters, id)

\* this.#clusters.findIndex((x) => x.id === id)
findIndexById(list, id) ==
  LET hits == {i \in 1..Len(list) : list[i].id = id}
  IN IF hits = {} THEN 0 ELSE CHOOSE i \in hits : \A j \in hits : i <= j

RemoveAt(list, i) == SubSeq(list, 1, i - 1) \o SubSeq(list, i + 1, Len(list))

Ret(op, arg, out) == [op |-> op, arg |-> arg, out |-> out]

\* the last step was not a call whose outcome a caller sees
NoRet == Ret("none", Undefined, "none")

\* the fields of a Cluster object after its constructor; clientOptions is the
\* manager's options object in the worker process, client the options the
\* gateway client held by this.client was instantiated with (none yet)
NewAgent ==
  [id |-> -1, shardCount |-> 0, firstShardID |-> 0, lastShardID |-> 0,
   clients |-> 0, clientOptions |-> clientOptions, client |-> <<>>]

\* `options.clientOptions ?? {}`: the options object when none is passed
NoOptions == <<>>

\* the clientOptions an embedding passes to the constructor
OptionInputs ==
  {NoOptions,
   [autoreconnect |-> FALSE, firstShardID |-> 5, lastShardID |-> 6,
    maxShards |-> 7, compress |-> FALSE]}

InitWith(options) ==
  /\ privClusters = <<>>
  /\ clusters = <<>>
  /\ workers = <<>>
  /\ nextWorkerId = 1
  /\ liveWorkers = {}
  /\ exited = <<>>
  /\ pc = "new"
  /\ listeners = {}
  /\ todo = <<>>
  /\ awaiting = Undefined
  /\ queue = <<>>
  /\ active = <<>>
  /\ inbox = <<>>
  /\ agent = <<>>
  /\ sends = 0
  /\ reconnectCalls = 0
  /\ toMaster = <<>>
  /\ clientOptions = options
  /\ logged = {}
  /\ masterExit = Undefined
  /\ ret = NoRet

\* a manager constructed without clientOptions
Init == InitWith(NoOptions)

\* ------------------------------------------------------ ClusterManager methods
\* cluster.fork(): a new worker process whose Cluster agent waits for messages
fork ==
  /\ nextWorkerId <= MaxWorkers
  /\ liveWorkers' = liveWorkers \cup {nextWorkerId}
  /\ nextWorkerId' = nextWorkerId + 1
  /\ inbox' = (nextWorkerId :> <<>>) @@ inbox
  /\ agent' = (nextWorkerId :> NewAgent) @@ agent

startCluster(clusterId) ==
  LET i == getCluster(clusterId) IN
  IF i = 0
    THEN UNCHANGED <<privClusters, workers, nextWorkerId, liveWorkers, inbox, agent>>
    ELSE /\ fork
         /\ privClusters' = [privClusters EXCEPT ![i].workerId = nextWorkerId]
         /\ workers' = (nextWorkerId :> clusterId) @@ workers

\* addCluster without its duplicate check
addClusterUnchecked(config) == privClusters' = Append(privClusters, config)

addCluster(config) ==
  IF getCluster(config.id) # 0
    THEN UNCHANGED privClusters
    ELSE privClusters' = Append(privClusters, config)

addClusterThrows(config) == getCluster(config.id) # 0

removeCluster(id) ==
  LET index == findIndexById(privClusters, id) IN
  privClusters' = IF index # 0 THEN RemoveAt(privClusters, index) ELSE privClusters

\* worker.send(message) on the worker with id w
send(w, message) ==
  /\ sends < MaxSends
  /\ inbox' = [inbox EXCEPT ![w] = Append(@, message)]
  /\ sends' = sends + 1

\* sendTo: reading workerID of a missing map entry is a TypeError
sendToOutcome(clusterID) ==
  IF clusterID \notin DOMAIN clusters THEN "TypeError"
  ELSE IF clusters[clusterID].workerID \in liveWorkers THEN "sent"
  ELSE "return"

sendTo(clusterID, message) ==
  IF sendToOutcome(clusterID) = "sent"
    THEN send(clusters[clusterID].workerID, message)
    ELSE UNCHANGED <<inbox, sends>>

\* broadcast(start, message): the workers it sends to, in order; the recursion
\* ends at the first id without an entry in `clusters`, or with a TypeError at
\* an entry whose worker is not in cluster.workers
RECURSIVE broadcastTargets(_)
broadcastTargets(start) ==
  IF start \notin DOMAIN clusters THEN <<>>
  ELSE IF clusters[start].workerID \notin liveWorkers THEN <<>>
  ELSE <<clusters[start].workerID>> \o broadcastTargets(start + 1)

RECURSIVE broadcastOutcome(_)
broadcastOutcome(start) ==
  IF start \notin DOMAIN clusters THEN "return"
  ELSE IF clusters[start].workerID \notin liveWorkers THEN "TypeError"
  ELSE broadcastOutcome(start + 1)

RECURSIVE sendAll(_, _, _)
sendAll(box, targets, message) ==
  IF targets = <<>> THEN box
  ELSE sendAll([box EXCEPT ![Head(targets)] = Append(@, message)],
               Tail(targets), message)

broadcast(start, message) ==
  /\ sends + Len(broadcastTargets(start)) <= MaxSends
  /\ inbox' = sendAll(inbox, broadcastTargets(start), message)
  /\ sends' = sends + Len(broadcastTargets(start))

Running == masterExit = Undefined

\* --------------------------------------------- calls made by the embedding code
CallStartCluster(k) ==
  /\ Running
  /\ startCluster(k)
  /\ ret' = Ret("startCluster", k, IF getCluster(k) = 0 THEN "return" ELSE "forked")
  /\ UNCHANGED <<clusters, exited, sends, reconnectCalls, toMaster, clientOptions>>
  /\ UNCHANGED launchVars /\ UNCHANGED queueVars

CallAddCluster(config) ==
  /\ Running
  /\ addCluster(config)
  /\ ret' = Ret("addCluster", config.id,
                IF addClusterThrows(config) THEN "Error" ELSE "ok")
  /\ UNCHANGED <<clusters, workers, nextWorkerId, liveWorkers, exited, reconnectCalls, toMaster, clientOptions>>
  /\ UNCHANGED launchVars /\ UNCHANGED queueVars /\ UNCHANGED procVars

CallRemoveCluster(id) ==
  /\ Running
  /\ removeCluster(id)
  /\ ret' = Ret("removeCluster", id, "ok")
  /\ UNCHANGED <<clusters, workers, nextWorkerId, liveWorkers, exited, reconnectCalls, toMaster, clientOptions>>
  /\ UNCHANGED launchVars /\ UNCHANGED queueVars /\ UNCHANGED procVars

CallSendTo(clusterID, message) ==
  /\ Running
  /\ sendTo(clusterID, message)
  /\ ret' = Ret("sendTo", clusterID, sendToOutcome(clusterID))
  /\ UNCHANGED <<agent, exited, reconnectCalls, toMaster, clientOptions>>
  /\ UNCHANGED mgrVars /\ UNCHANGED launchVars /\ UNCHANGED queueVars

CallBroadcast(start, message) ==
  /\ Running
  /\ broadcast(start, message)
  /\ ret' = Ret("broadcast", start, broadcastOutcome(start))
  /\ UNCHANGED <<agent, exited, reconnectCalls, toMaster, clientOptions>>
  /\ UNCHANGED mgrVars /\ UNCHANGED launchVars /\ UNCHANGED queueVars

\* `clusters` is a public field: the embedding code stores a RawCluster in it
clustersSet(id, workerID) ==
  /\ Running
  /\ clusters' = (id :> RawCluster(id, workerID)) @@ clusters
  /\ ret' = NoRet
  /\ UNCHANGED <<privClusters, workers, nextWorkerId, liveWorkers, exited, reconnectCalls, toMaster, clientOptions>>
  /\ UNCHANGED launchVars /\ UNCHANGED queueVars /\ UNCHANGED procVars

\* a worker process exits: node drops it from cluster.workers and emits "exit";
\* the listener of launch() calls restartCluster(worker, code), whose body is empty
restartCluster(w, code) == UNCHANGED <<reconnectCalls, privClusters, workers, clusters>>

Without(f, w) == [x \in DOMAIN f \ {w} |-> f[x]]

WorkerExit(w, code) ==
  /\ w \in liveWorkers
  /\ liveWorkers' = liveWorkers \ {w}
  /\ exited' = (w :> code) @@ exited
  /\ inbox' = Without(inbox, w)
  /\ agent' = Without(agent, w)
  /\ IF "exit" \in listeners
       THEN restartCluster(w, code)
       ELSE UNCHANGED <<reconnectCalls, privClusters, workers, clusters>>
  /\ ret' = NoRet
  /\ UNCHANGED <<nextWorkerId, sends, toMaster, clientOptions>>
  /\ UNCHANGED launchVars /\ UNCHANGED queueVars

\* ------------------------------------------------------------ Cluster (worker)
\* an assignment in which the keys already in target win
ObjectAssignKeep(target, source) == target @@ source

\* Object.assign(target, source): the keys of source override those of target
ObjectAssign(target, source) == source @@ target

\* Cluster.connect: the shard range is assigned into clientOptions, a gateway
\* client is instantiated with them and connected
connect(a) ==
  LET options == [autoreconnect |-> TRUE, firstShardID |-> a.firstShardID,
                  lastShardID |-> a.lastShardID, maxShards |-> a.shardCount]
      merged == ObjectAssign(a.clientOptions, options)
  IN [a EXCEPT !.clientOptions = merged, !.client = <<merged>>, !.clients = @ + 1]

\* the process.on("message") listener of Cluster.spawn
onMessage(a, message) ==
  IF message.name = Absent THEN a
  ELSE IF message.name = "connect"
    THEN LET b == [a EXCEPT !.firstShardID = message.firstShardID,
                            !.lastShardID = message.lastShardID,
                            !.id = message.clusterID,
                            !.shardCount = message.shardCount]
         IN IF b.shardCount > 0 THEN connect(b) ELSE b
  ELSE a

WorkerReceive(w) ==
  /\ w \in liveWorkers
  /\ inbox[w] # <<>>
  /\ agent' = [agent EXCEPT ![w] = onMessage(@, Head(inbox[w]))]
  /\ inbox' = [inbox EXCEPT ![w] = Tail(@)]
  /\ ret' = NoRet
  /\ UNCHANGED <<exited, sends, reconnectCalls, toMaster, clientOptions>>
  /\ UNCHANGED mgrVars /\ UNCHANGED launchVars /\ UNCHANGED queueVars

\* the notifications of the gateway client that Cluster.connect listens to
ClientEvents == {"connect", "shardReady", "ready"}

\* the client.on listeners of Cluster.connect: each writes a debug log line
onClientEvent(w, event) == UNCHANGED <<toMaster, agent>>

ClientEvent(w, event) ==
  /\ w \in liveWorkers
  /\ agent[w].clients > 0
  /\ onClientEvent(w, event)
  /\ ret' = Ret(event, w, "debug")
  /\ UNCHANGED <<inbox, sends, exited, reconnectCalls, clientOptions>>
  /\ UNCHANGED mgrVars /\ UNCHANGED launchVars /\ UNCHANGED queueVars

\* -------------------------------------------------------------------- launch
LaunchListeners ==
  {"uncaughtException", "unhandledRejection", "message", "exit", "execute"}

\* launch() that registers the process handlers only
CallLaunchProcessOnly ==
  /\ Running
  /\ pc = "new"
  /\ listeners' = {"uncaughtException", "unhandledRejection"}
  /\ pc' = "tick"
  /\ ret' = NoRet
  /\ UNCHANGED <<todo, awaiting, logged, masterExit, exited, reconnectCalls, toMaster, clientOptions>>
  /\ UNCHANGED mgrVars /\ UNCHANGED queueVars /\ UNCHANGED procVars

\* launch() on the master: the process handlers, the process.nextTick callback
\* is scheduled, then the cluster and queue listeners are registered
CallLaunch ==
  /\ Running
  /\ pc = "new"
  /\ listeners' = LaunchListeners
  /\ pc' = "tick"
  /\ ret' = NoRet
  /\ UNCHANGED <<todo, awaiting, logged, masterExit, exited, reconnectCalls, toMaster, clientOptions>>
  /\ UNCHANGED mgrVars /\ UNCHANGED queueVars /\ UNCHANGED procVars

\* getStartUpLogo: a configured logo file that cannot be read ends the process
TickLogoMissing ==
  /\ Running
  /\ pc = "tick"
  /\ logged' = logged \cup {"Failed to locate logo file"}
  /\ masterExit' = 1
  /\ pc' = "exit"
  /\ ret' = NoRet
  /\ UNCHANGED <<listeners, todo, awaiting, exited, reconnectCalls, toMaster, clientOptions>>
  /\ UNCHANGED mgrVars /\ UNCHANGED queueVars /\ UNCHANGED procVars

\* the callback reaches `await this.clusterStrategy.run(this)`
TickStart ==
  /\ Running
  /\ pc = "tick"
  /\ pc' = "clusterStrategy"
  /\ ret' = NoRet
  /\ UNCHANGED <<listeners, todo, awaiting, logged, masterExit, exited, reconnectCalls, toMaster, clientOptions>>
  /\ UNCHANGED mgrVars /\ UNCHANGED queueVars /\ UNCHANGED procVars

\* the cluster strategy adds a config; an Error of addCluster rejects the
\* callback's promise, which handleRejection logs
StrategyAddCluster(config) ==
  /\ Running
  /\ pc = "clusterStrategy"
  /\ addCluster(config)
  /\ IF addClusterThrows(config)
       THEN /\ pc' = "rejected"
            /\ logged' = logged \cup {"Clusters cannot have the same ID."}
       ELSE UNCHANGED <<pc, logged>>
  /\ ret' = Ret("addCluster", config.id,
                IF addClusterThrows(config) THEN "Error" ELSE "ok")
  /\ UNCHANGED <<clusters, workers, nextWorkerId, liveWorkers>>
  /\ UNCHANGED <<listeners, todo, awaiting, masterExit, exited, reconnectCalls, toMaster, clientOptions>>
  /\ UNCHANGED queueVars /\ UNCHANGED procVars

\* the cluster strategy's promise resolves
StrategyReturn ==
  /\ Running
  /\ pc = "clusterStrategy"
  /\ pc' = "validate"
  /\ ret' = NoRet
  /\ UNCHANGED <<listeners, todo, awaiting, logged, masterExit, exited, reconnectCalls, toMaster, clientOptions>>
  /\ UNCHANGED mgrVars /\ UNCHANGED queueVars /\ UNCHANGED procVars

\* configs in ascending id order
RECURSIVE SortById(_)
SortById(list) ==
  IF list = <<>> THEN <<>>
  ELSE LET m == CHOOSE i \in 1..Len(list) :
                   \A j \in 1..Len(list) :
                      list[i].id < list[j].id \/ (list[i].id = list[j].id /\ i <= j)
       IN <<list[m]>> \o SortById(RemoveAt(list, m))

\* launch without the check of the config list's length
ValidateUnchecked ==
  /\ Running
  /\ pc = "validate"
  /\ pc' = "connectStrategy"
  /\ todo' = SortById(privClusters)
  /\ ret' = Ret("validate", Undefined, "ok")
  /\ UNCHANGED <<listeners, awaiting, logged, masterExit, exited, reconnectCalls, toMaster, clientOptions>>
  /\ UNCHANGED mgrVars /\ UNCHANGED queueVars /\ UNCHANGED procVars

\* `if (!this.#clusters.length) throw`, else on to connectStrategy.run
Validate ==
  /\ Running
  /\ pc = "validate"
  /\ IF Len(privClusters) = 0
       THEN /\ pc' = "rejected"
            /\ logged' = logged \cup {"Cluster strategy failed to produce at least 1 cluster."}
            /\ UNCHANGED todo
       ELSE /\ pc' = "connectStrategy"
            /\ todo' = SortById(privClusters)
            /\ UNCHANGED logged
  /\ ret' = Ret("validate", Undefined, IF Len(privClusters) = 0 THEN "Error" ELSE "ok")
  /\ UNCHANGED <<listeners, awaiting, masterExit, exited, reconnectCalls, toMaster, clientOptions>>
  /\ UNCHANGED mgrVars /\ UNCHANGED queueVars /\ UNCHANGED procVars

\* ------------------------------------------- connect strategy and ClusterQueue
Concurrency == 1

QueueItem(config) ==
  [clusterID |-> config.id, firstShardID |-> config.firstShardId,
   lastShardID |-> config.lastShardId, shardCount |-> config.shardCount]

\* ordered connect strategy: start the next config's worker, enqueue its item
ConnectNext ==
  /\ Running
  /\ pc = "connectStrategy"
  /\ awaiting = Undefined
  /\ todo # <<>>
  /\ startCluster(Head(todo).id)
  /\ queue' = Append(queue, QueueItem(Head(todo)))
  /\ awaiting' = Head(todo).id
  /\ todo' = Tail(todo)
  /\ ret' = Ret("startCluster", Head(todo).id,
                IF getCluster(Head(todo).id) = 0 THEN "return" ELSE "forked")
  /\ UNCHANGED <<clusters, exited, sends, reconnectCalls, toMaster, clientOptions, active>>
  /\ UNCHANGED <<pc, listeners, logged, masterExit>>

\* the connect strategy's promise resolves: launch is over
ConnectReturn ==
  /\ Running
  /\ pc = "connectStrategy"
  /\ awaiting = Undefined
  /\ todo = <<>>
  /\ pc' = "launched"
  /\ ret' = NoRet
  /\ UNCHANGED <<listeners, todo, awaiting, logged, masterExit, exited, reconnectCalls, toMaster, clientOptions>>
  /\ UNCHANGED mgrVars /\ UNCHANGED queueVars /\ UNCHANGED procVars

\* the message the queue's "execute" listener sends: { ...item, eventName: "connect" }
ExecuteMessage(item) ==
  IPCMessage(Absent, "connect", item.clusterID, item.firstShardID,
             item.lastShardID, item.shardCount)

\* the "execute" listener of launch(): looks the cluster up in `clusters`
onExecuteOutcome(item) ==
  IF item.clusterID \notin DOMAIN clusters THEN "skip"
  ELSE IF clusters[item.clusterID].workerID \in liveWorkers THEN "sent"
  ELSE "TypeError"

onExecute(item) ==
  /\ IF onExecuteOutcome(item) = "sent"
       THEN send(clusters[item.clusterID].workerID, ExecuteMessage(item))
       ELSE UNCHANGED <<inbox, sends>>
  /\ logged' = IF onExecuteOutcome(item) = "TypeError"
                 THEN logged \cup {"TypeError"} ELSE logged

\* the queue's scheduler takes the head item, leases it and emits "execute"
QueueExecute ==
  /\ Running
  /\ Len(active) < Concurrency
  /\ queue # <<>>
  /\ active' = Append(active, Head(queue))
  /\ queue' = Tail(queue)
  /\ IF "execute" \in listeners
       THEN onExecute(Head(queue))
       ELSE UNCHANGED <<inbox, sends, logged>>
  /\ ret' = Ret("execute", Head(queue).clusterID,
                IF "execute" \in listeners THEN onExecuteOutcome(Head(queue)) ELSE "skip")
  /\ UNCHANGED <<agent, exited, reconnectCalls, toMaster, clientOptions>>
  /\ UNCHANGED <<pc, listeners, todo, awaiting, masterExit>>
  /\ UNCHANGED mgrVars

\* a lease ends (its clusterTimeout elapsed): the strategy waiting for it goes on
QueueRelease ==
  /\ Running
  /\ active # <<>>
  /\ active' = Tail(active)
  /\ awaiting' = IF awaiting = Head(active).clusterID THEN Undefined ELSE awaiting
  /\ ret' = NoRet
  /\ UNCHANGED <<queue, exited, reconnectCalls, toMaster, clientOptions>>
  /\ UNCHANGED <<pc, listeners, todo, logged, masterExit>>
  /\ UNCHANGED mgrVars /\ UNCHANGED procVars

\* ------------------------------------------------------------- specifications
\* the registry calls of the manager, and worker processes ending
Next ==
  \/ \E k \in ClusterIds \cup WorkerIds : CallStartCluster(k)
  \/ \E c \in ConfigInputs : CallAddCluster(c)
  \/ \E k \in ClusterIds : CallRemoveCluster(k)
  \/ \E w \in WorkerIds, code \in 0..1 : WorkerExit(w, code)

Spec == Init /\ [][Next]_vars

\* launch() on the master with its strategies, the queue, the workers and IPC
NextLaunch ==
  \/ CallLaunch
  \/ TickLogoMissing
  \/ TickStart
  \/ \E c \in StrategyInputs : StrategyAddCluster(c)
  \/ StrategyReturn
  \/ Validate
  \/ ConnectNext
  \/ ConnectReturn
  \/ QueueExecute
  \/ QueueRelease
  \/ \E w \in WorkerIds : WorkerReceive(w)
  \/ \E w \in WorkerIds, code \in 0..1 : WorkerExit(w, code)
  \/ \E k \in ClusterIds, m \in MessageInputs : CallSendTo(k, m)
  \/ \E k \in ClusterIds, w \in WorkerIds : clustersSet(k, w)

SpecLaunch == Init /\ [][NextLaunch]_vars

\* a manager constructed with any of the clientOptions
InitIpc == \E options \in OptionInputs : InitWith(options)

\* the manager's calls that reach the workers over IPC, and the worker agents
NextIpc ==
  \/ \E c \in StrategyInputs : CallAddCluster(c)
  \/ \E k \in ClusterIds : CallStartCluster(k)
  \/ \E k \in ClusterIds, w \in WorkerIds : clustersSet(k, w)
  \/ \E k \in ClusterIds, m \in MessageInputs : CallSendTo(k, m)
  \/ \E k \in ClusterIds, m \in MessageInputs : CallBroadcast(k, m)
  \/ \E w \in WorkerIds : WorkerReceive(w)
  \/ \E w \in WorkerIds, e \in ClientEvents : ClientEvent(w, e)
  \/ \E w \in WorkerIds, code \in 0..1 : WorkerExit(w, code)

SpecIpc == InitIpc /\ [][NextIpc]_vars

\* launch() and the queue, with addCluster and removeCluster called by the
\* embedding code at any time
NextAdmin ==
  \/ CallLaunch
  \/ TickLogoMissing
  \/ TickStart
  \/ \E c \in StrategyInputs : StrategyAddCluster(c)
  \/ StrategyReturn
  \/ Validate
  \/ ConnectNext
  \/ ConnectReturn
  \/ QueueExecute
  \/ QueueRelease
  \/ \E c \in ConfigInputs : CallAddCluster(c)
  \/ \E k \in ClusterIds : CallRemoveCluster(k)
  \/ \E w \in WorkerIds, code \in 0..1 : WorkerExit(w, code)

SpecAdmin == Init /\ [][NextAdmin]_vars

\* ------------------------------------------------------------ shard count
\* sessionData.shards of getBotGateway (0: no usable session data), and the
\* options guildsPerShard and shardCountOverride of the manager
ShardInputs == (0..MaxGatewayShards) \cup {120}
GuildsPerShardInputs == (1..MaxGuildsPerShard) \cup {1000, 1500}
OverrideInputs == (0..MaxOverride) \cup {80, 81}

\* fetchGuildCount: sessionData.shards * 1000
fetchGuildCount(shards) == shards * 1000

\* rounding down instead of up
Floor(a, b) == a \div b

\* Math.ceil(a / b) for a >= 0, b > 0
Ceil(a, b) == IF a % b = 0 THEN a \div b ELSE (a \div b) + 1

\* Math.max
Max(a, b) == IF a >= b THEN a ELSE b

fetchShardCount(shards, guildsPerShard, shardCountOverride) ==
  Max(shardCountOverride, Ceil(fetchGuildCount(shards), guildsPerShard))

\* a call of fetchShardCount; without session data or with shards = 0
\* fetchGuildCount throws "Failed to fetch guild count."
CallFetchShardCount(shards, guildsPerShard, shardCountOverride) ==
  /\ Running
  /\ ret' = Ret("fetchShardCount",
                [shards |-> shards, guildsPerShard |-> guildsPerShard,
                 shardCountOverride |-> shardCountOverride,
                 value |-> IF shards = 0 THEN Undefined
                           ELSE fetchShardCount(shards, guildsPerShard,
                                                shardCountOverride)],
                IF shards = 0 THEN "Error" ELSE "ok")
  /\ UNCHANGED <<exited, reconnectCalls, toMaster, clientOptions>>
  /\ UNCHANGED mgrVars /\ UNCHANGED launchVars /\ UNCHANGED queueVars
  /\ UNCHANGED procVars

NextShards ==
  \E s \in ShardInputs, g \in GuildsPerShardInputs, o \in OverrideInputs :
    CallFetchShardCount(s, g, o)

SpecShards == Init /\ [][NextShards]_vars

\* the path of a message from sendTo to the agent of a worker
NextAgent ==
  \/ \E c \in StrategyInputs : CallAddCluster(c)
  \/ \E k \in ClusterIds : CallStartCluster(k)
  \/ \E k \in ClusterIds, w \in WorkerIds : clustersSet(k, w)
  \/ \E k \in ClusterIds, m \in MessageInputs : CallSendTo(k, m)
  \/ \E w \in WorkerIds : WorkerReceive(w)

SpecAgent == InitIpc /\ [][NextAgent]_vars

\* ---------------------------------------------------------------- properties
HasId(id) == findIndexById(privClusters, id) # 0

\* C1: startCluster(k) forks a worker if and only if a config with id k exists,
\* and then the new worker's id becomes the workerId of that config and no
\* other config changes.
C1_StartClusterOnlyOwnConfig ==
  [][\A k \in ClusterIds \cup WorkerIds :
       (ret'.op = "startCluster" /\ ret'.arg = k) =>
         LET i == findIndexById(privClusters, k) IN
         /\ (ret'.out = "forked") <=> (i # 0)
         /\ i # 0 => privClusters' = [privClusters EXCEPT ![i].workerId = nextWorkerId]
    ]_vars

\* C2: for every spawned config, getCluster(config.id) and
\* getCluster(config.workerId) both return that config.
C2_GetClusterByEitherKey ==
  \A i \in 1..Len(privClusters) :
    privClusters[i].workerId # Undefined =>
      /\ getCluster(privClusters[i].id) = i
      /\ getCluster(privClusters[i].workerId) = i

\* C3: addCluster with the id of a config already in the list fails with an
\* Error and leaves the config list, contents and order, unchanged.
C3_DuplicateAddFails ==
  [][\A k \in ClusterIds :
       (ret'.op = "addCluster" /\ ret'.arg = k /\ HasId(k)) =>
         (ret'.out = "Error" /\ privClusters' = privClusters)
    ]_vars

\* a duplicate addCluster has just been refused on a list that holds a spawned
\* config and a second config
C3_Witness ==
  /\ ret.op = "addCluster" /\ ret.out = "Error"
  /\ HasId(ret.arg)
  /\ Len(privClusters) = 2
  /\ \E i \in 1..2 : privClusters[i].workerId # Undefined

\* C4: when the queue emits "execute" for an item whose cluster has a worker
\* started by startCluster, exactly one message is sent to that worker and
\* none to any other worker.
C4_ExecuteSendsToClusterWorker ==
  [][(ret'.op = "execute" /\ queue # <<>> /\ queue' = Tail(queue)) =>
       LET i == findIndexById(privClusters, Head(queue).clusterID) IN
       (i # 0 /\ privClusters[i].workerId \in liveWorkers) =>
         /\ Len(inbox'[privClusters[i].workerId]) = Len(inbox[privClusters[i].workerId]) + 1
         /\ \A v \in liveWorkers \ {privClusters[i].workerId} : inbox'[v] = inbox[v]
    ]_vars

\* C5: a message sent by the "execute" listener is one the worker recognizes:
\* an idle agent that handles it, with shardCount > 0, starts to connect.
C5_ExecuteMessageRecognized ==
  [][\A w \in liveWorkers :
       (/\ w \in liveWorkers'
        /\ inbox[w] # <<>>
        /\ inbox'[w] = Tail(inbox[w])
        /\ Head(inbox[w]).eventName = "connect"
        /\ Head(inbox[w]).shardCount > 0
        /\ agent[w].clients = 0)
       => agent'[w].clients = 1
    ]_vars

\* C6: every exit of a worker with a non-zero code makes the master run the
\* reconnect strategy exactly once.
C6_ReconnectOnUnexpectedExit ==
  [][\A w \in liveWorkers :
       (w \notin liveWorkers' /\ "exit" \in listeners /\ exited'[w] # 0)
         => reconnectCalls' = reconnectCalls + 1
    ]_vars

\* C7: a worker that has exited is no longer in the worker registration, and
\* getCluster(workerId) returns no config of the dead worker.
C7_ExitedWorkerUnregistered ==
  \A w \in DOMAIN exited :
    /\ w \notin DOMAIN workers
    /\ getCluster(w) = 0 \/ privClusters[getCluster(w)].workerId # w

\* C8: launch runs the cluster strategy to its end, then checks the config
\* list, and only then the connect strategy; with an empty list the connect
\* strategy never runs and no worker is forked.
C8_LaunchOrder ==
  /\ [](pc = "rejected" => (nextWorkerId = 1 /\ todo = <<>> /\ queue = <<>>))
  /\ [][/\ (pc' = "validate" /\ pc # "validate") => pc = "clusterStrategy"
        /\ (pc' = "connectStrategy" /\ pc # "connectStrategy")
             => (pc = "validate" /\ Len(privClusters) > 0)
        /\ (pc = "validate" /\ Len(privClusters) = 0)
             => pc' \in {"validate", "rejected"}
        /\ pc = "rejected" => pc' = "rejected"
        /\ nextWorkerId' # nextWorkerId => pc = "connectStrategy"
       ]_vars

ZeroClusters == "Cluster strategy failed to produce at least 1 cluster."

\* launch has been refused for an empty config list
C8_Witness ==
  /\ pc = "rejected"
  /\ ZeroClusters \in logged
  /\ privClusters = <<>>

\* C9: once launch has found zero clusters and the error is logged, the master
\* process has ended with a non-zero exit code.
C9_ZeroClustersExits ==
  ZeroClusters \in logged => (masterExit # Undefined /\ masterExit # 0)

\* no live worker is registered for the cluster id in `clusters`
NoWorkerRegistered(clusterID) ==
  clusterID \notin DOMAIN clusters \/ clusters[clusterID].workerID \notin liveWorkers

\* C10: sendTo for a cluster id without a registered worker returns normally,
\* sends nothing and changes no manager state.
C10_SendToDrops ==
  [][\A k \in ClusterIds :
       (ret'.op = "sendTo" /\ ret'.arg = k /\ NoWorkerRegistered(k)) =>
         /\ ret'.out = "return"
         /\ inbox' = inbox
         /\ UNCHANGED mgrVars
    ]_vars

\* the live worker startCluster has recorded for the config with this id
StartedWorker(clusterID) ==
  LET i == findIndexById(privClusters, clusterID) IN
  IF i # 0 /\ privClusters[i].workerId \in liveWorkers
    THEN privClusters[i].workerId ELSE Undefined

RECURSIVE StartedFrom(_)
StartedFrom(start) ==
  IF StartedWorker(start) = Undefined THEN {}
  ELSE {StartedWorker(start)} \cup StartedFrom(start + 1)

\* C11: broadcast(start, m) sends m exactly once to the worker of each
\* cluster start, start+1, ... up to the first id without a started worker,
\* and to no other worker; so broadcast(0, m) reaches all workers of clusters
\* 0..n-1 once they are started with startCluster.
C11_BroadcastReachesStarted ==
  [][\A k \in ClusterIds :
       (ret'.op = "broadcast" /\ ret'.arg = k) =>
         \A w \in liveWorkers :
           Len(inbox'[w]) = Len(inbox[w]) + (IF w \in StartedFrom(k) THEN 1 ELSE 0)
    ]_vars

\* C12: every connect, shardReady and ready notification of a worker's
\* gateway client makes the worker send one message to the master.
C12_ClientEventsForwarded ==
  [][\A w \in liveWorkers, e \in ClientEvents :
       (ret' = Ret(e, w, "debug") /\ ret # ret') =>
         Len(toMaster') = Len(toMaster) + 1
    ]_vars

\* the keys Cluster.connect assigns
RangeKeys == {"autoreconnect", "firstShardID", "lastShardID", "maxShards"}

\* C13: handling a connect message with shardCount > 0 instantiates the
\* gateway client with the message's firstShardID and lastShardID, maxShards
\* equal to its shardCount and autoreconnect true, whatever clientOptions held
\* for those keys; every other key of clientOptions is passed on unchanged.
C13_ClientOptionsOverridden ==
  [][\A w \in liveWorkers :
       (/\ w \in liveWorkers'
        /\ inbox[w] # <<>>
        /\ inbox'[w] = Tail(inbox[w])
        /\ Head(inbox[w]).name = "connect"
        /\ Head(inbox[w]).shardCount > 0)
       => /\ Len(agent'[w].client) = 1
          /\ LET m == Head(inbox[w])
                 old == agent[w].clientOptions
                 new == agent'[w].client[1]
             IN /\ DOMAIN new = DOMAIN old \cup RangeKeys
                /\ new.firstShardID = m.firstShardID
                /\ new.lastShardID = m.lastShardID
                /\ new.maxShards = m.shardCount
                /\ new.autoreconnect = TRUE
                /\ \A key \in DOMAIN old \ RangeKeys : new[key] = old[key]
    ]_vars

\* a client has been instantiated in a worker whose clientOptions came with a
\* shard range and autoreconnect of their own
C13_Witness ==
  /\ RangeKeys \subseteq DOMAIN clientOptions
  /\ \E w \in liveWorkers :
       /\ agent[w].clients = 1
       /\ agent[w].client[1].firstShardID # clientOptions.firstShardID
       /\ agent[w].client[1].compress = clientOptions.compress

\* C17: an agent that has left Idle is changed by no later IPC message: its
\* cluster id, shard range and gateway client stay as they are.
C17_ConnectedIsTerminal ==
  [][\A w \in liveWorkers :
       (/\ w \in liveWorkers'
        /\ inbox[w] # <<>>
        /\ inbox'[w] = Tail(inbox[w])
        /\ agent[w].clients > 0)
       => agent'[w] = agent[w]
    ]_vars

\* C14: for shards s >= 1, guildsPerShard g >= 1 and override o >= 0,
\* fetchShardCount returns max(o, ceil(s * 1000 / g)): the least r >= o with
\* r * g >= s * 1000; s = 120, g = 1500, o = 0 gives 80.
C14_ShardCount ==
  (ret.op = "fetchShardCount" /\ ret.arg.shards >= 1) =>
    LET r == ret.arg.value
        g == ret.arg.guildsPerShard
        o == ret.arg.shardCountOverride
        guilds == ret.arg.shards * 1000
    IN /\ ret.out = "ok"
       /\ r >= o
       /\ r * g >= guilds
       /\ r = o \/ (r - 1) * g < guilds
       /\ (ret.arg.shards = 120 /\ g = 1500 /\ o = 0) => r = 80

\* the count for 120 recommended shards, 1500 guilds per shard, no override
C14_Witness ==
  /\ ret.op = "fetchShardCount"
  /\ ret.arg.shards = 120 /\ ret.arg.guildsPerShard = 1500
  /\ ret.arg.shardCountOverride = 0
  /\ ret.arg.value = 80

\* the config list without the workerId fields
WithoutWorkerIds(list) ==
  [i \in 1..Len(list) |-> [list[i] EXCEPT !.workerId = Undefined]]

\* C15: once the connect strategy has started, the configs and their id and
\* shard range no longer change, whatever addCluster and removeCluster calls
\* are made; only workerId may change.
C15_ConfigsFrozenAfterConnect ==
  [][(pc = "connectStrategy" \/ pc = "launched") =>
       WithoutWorkerIds(privClusters') = WithoutWorkerIds(privClusters)
    ]_vars

\* C16: the worker registration and the config list agree in both directions:
\* every entry workerId -> clusterId of `workers` names a config with that id
\* and that workerId, and every config with a workerId has that entry.
C16_RegistryConsistent ==
  /\ \A w \in DOMAIN workers :
       \E i \in 1..Len(privClusters) :
         privClusters[i].id = workers[w] /\ privClusters[i].workerId = w
  /\ \A i \in 1..Len(privClusters) :
       privClusters[i].workerId # Undefined =>
         /\ privClusters[i].workerId \in DOMAIN workers
         /\ workers[privClusters[i].workerId] = privClusters[i].id

\* C18: no two configs in the list have the same id.
C18_UniqueIds ==
  \A i, j \in 1..Len(privClusters) :
    privClusters[i].id = privClusters[j].id => i = j

\* an addCluster has just been refused on a list all of whose configs, more
\* than one, are spawned
C18_Witness ==
  /\ ret.op = "addCluster" /\ ret.out = "Error"
  /\ Len(privClusters) > 1
  /\ \A i \in 1..Len(privClusters) : privClusters[i].workerId # Undefined

\* C19: addCluster of a config whose id no config in the list has succeeds and
\* appends the config at the end of the list.
C19_AddFailsOnlyOnDuplicateId ==
  [][\A k \in ClusterIds :
       (ret'.op = "addCluster" /\ ret'.arg = k /\ ~HasId(k)) =>
         /\ ret'.out = "ok"
         /\ Len(privClusters') = Len(privClusters) + 1
         /\ SubSeq(privClusters', 1, Len(privClusters)) = privClusters
         /\ privClusters'[Len(privClusters')].id = k
    ]_vars

\* C20: the manager's "execute" and "exit" listeners are registered before the
\* cluster strategy or the connect strategy runs: no "execute" is emitted and
\* no worker exits in a launch without them.
C20_ListenersBeforeStrategies ==
  /\ [](pc \in {"clusterStrategy", "validate", "connectStrategy", "launched", "rejected"}
          => {"execute", "exit"} \subseteq listeners)
  /\ [][/\ ret'.op = "execute" => "execute" \in listeners
        /\ (\E w \in liveWorkers : w \notin liveWorkers') => "exit" \in listeners
       ]_vars

\* during the connect strategy a worker has exited and "execute" was emitted
C20_Witness ==
  /\ pc = "connectStrategy"
  /\ ret.op = "execute"
  /\ DOMAIN exited # {}
  /\ {"execute", "exit"} \subseteq listeners

====
